---- MODULE Spec2Model ----
(***************************************************************************)
(* The leaky-integrate-and-fire simulator of exercises/exe_02_jit.ipynb:   *)
(* run_step and the run_simulation that calls it (lines 237-286), the      *)
(* run_simulation that inlines the loop body (lines 577-612) and the       *)
(* repeated calls of the timing loops (lines 288-341, 614-628).            *)
(*                                                                         *)
(* Numbers are exact rationals, kept in lowest terms; the rounding of the  *)
(* float arithmetic of the arrays is not modelled.  Arrays carry their     *)
(* shapes, and the array operations follow numpy's shape rules (the inner  *)
(* dimensions of dot must agree, elementwise operands broadcast).          *)
(***************************************************************************)
EXTENDS Integers, Sequences, FiniteSets, TLC

(* ------------------------------ bounds --------------------------------- *)
\* largest number of neurons of the square networks
MaxN == 2
\* largest number of rows, columns and entries of the arrays whose shapes
\* need not agree
MaxDim == 3
\* number of calls of the timing loop (num_simulations of the
\* hyperparameters module)
MaxCalls == 2

(* --------------------------- exact rationals --------------------------- *)
Abs(x) == IF x < 0 THEN -x ELSE x

RECURSIVE GCD(_, _)
GCD(a, b) == IF b = 0 THEN a ELSE GCD(b, a % b)

\* n/d in lowest terms with a positive denominator (d # 0)
Frac(n, d) ==
    LET g == GCD(Abs(n), Abs(d))
        s == IF d < 0 THEN -1 ELSE 1
    IN  [num |-> s * (n \div g), den |-> s * (d \div g)]

Q(n) == [num |-> n, den |-> 1]

QAdd(a, b) == Frac(a.num * b.den + b.num * a.den, a.den * b.den)
QNeg(a) == [num |-> -a.num, den |-> a.den]
QSub(a, b) == QAdd(a, QNeg(b))
QMul(a, b) == Frac(a.num * b.num, a.den * b.den)
QDiv(a, b) == Frac(a.num * b.den, a.den * b.num)
QGeq(a, b) == a.num * b.den >= b.num * a.den
QLt(a, b) == a.num * b.den < b.num * a.den
QLeq(a, b) == a.num * b.den <= b.num * a.den
QAbs(a) == [num |-> Abs(a.num), den |-> a.den]

(* ------------------------- array operations ---------------------------- *)
Rows(M) == Len(M)
Cols(M) == Len(M[1])

\* two lengths broadcast together when they agree or one of them is 1
Broadcastable(m, n) == m = n \/ m = 1 \/ n = 1
BroadcastLen(m, n) == IF m = 1 THEN n ELSE m
\* entry k of a vector broadcast to a length >= k
At(v, k) == v[IF Len(v) = 1 THEN 1 ELSE k]

\* v >= s, elementwise
GreaterEqual(v, s) == [k \in 1..Len(v) |-> QGeq(v[k], s)]

\* jnp.where(cond, x, y) for a scalar x
where(cond, x, y) ==
    [k \in 1..BroadcastLen(Len(cond), Len(y)) |-> IF At(cond, k) THEN x ELSE At(y, k)]

RECURSIVE DotRow(_, _, _)
DotRow(row, b, j) ==
    IF j = 0 THEN Q(0)
    ELSE QAdd(DotRow(row, b, j - 1), IF b[j] THEN row[j] ELSE Q(0))

\* M.dot(b) for a boolean vector b (True is 1, False is 0); Cols(M) = Len(b)
dot(M, b) == [r \in 1..Rows(M) |-> DotRow(M[r], b, Len(b))]

VecNeg(v) == [k \in 1..Len(v) |-> QNeg(v[k])]
VecAddScalar(v, s) == [k \in 1..Len(v) |-> QAdd(v[k], s)]
VecScale(s, v) == [k \in 1..Len(v) |-> QMul(s, v[k])]
VecAdd(u, v) ==
    [k \in 1..BroadcastLen(Len(u), Len(v)) |-> QAdd(At(u, k), At(v, k))]

\* the shapes for which the loop body raises: W.dot(spiked) needs as many
\* columns as spiked has entries, and -V + v_reset + membr_R * I_syn needs
\* V (one entry per entry of spiked) and I_syn (one per row of W) to broadcast
ShapeErrorNotSquare(M, v) == Rows(M) # Cols(M) \/ Rows(M) # Len(v)
ShapeError(M, v) == Cols(M) # Len(v) \/ ~Broadcastable(Len(v), Rows(M))

(* -------------------------- jnp.arange(0, t_max, dt) ------------------- *)
CeilDiv(a, b) == -((-a) \div b)

\* number of time points 0, dt, 2 dt, ... < stop, for dt > 0
ArangeLenFloor(stop, step) ==
    LET r == QDiv(stop, step) IN IF r.num \div r.den < 0 THEN 0 ELSE r.num \div r.den
ArangeLenInclusive(stop, step) ==
    LET r == QDiv(stop, step) IN IF r.num < 0 THEN 0 ELSE (r.num \div r.den) + 1
ArangeLen(stop, step) ==
    LET r == QDiv(stop, step)
        n == CeilDiv(r.num, r.den)
    IN  IF n < 0 THEN 0 ELSE n

(* ------------------------------ run_step -------------------------------- *)
dV_of(V, I_syn, p) ==
    VecScale(QDiv(p.dt, p.tau_m),
             VecAdd(VecAddScalar(VecNeg(V), p.v_reset), VecScale(p.membr_R, I_syn)))

run_step_NoPostReset(v_prev, M, p) ==
    LET spiked == GreaterEqual(v_prev, p.v_thresh)
        V1 == where(spiked, p.v_reset, v_prev)
        I_syn == dot(M, spiked)
    IN  [V |-> VecAdd(V1, dV_of(V1, I_syn, p)), spiked |-> spiked]
run_step_NoCurrent(v_prev, M, p) ==
    LET spiked == GreaterEqual(v_prev, p.v_thresh)
        V1 == where(spiked, p.v_reset, v_prev)
        I_syn == [r \in 1..Rows(M) |-> Q(0)]
    IN  [V |-> where(spiked, p.v_reset, VecAdd(V1, dV_of(V1, I_syn, p))),
         spiked |-> spiked]
run_step_LeakSign(v_prev, M, p) ==
    LET spiked == GreaterEqual(v_prev, p.v_thresh)
        V1 == where(spiked, p.v_reset, v_prev)
        I_syn == dot(M, spiked)
        dV == VecScale(QDiv(p.dt, p.tau_m),
                  VecAdd(VecAddScalar(V1, p.v_reset), VecScale(p.membr_R, I_syn)))
    IN  [V |-> where(spiked, p.v_reset, VecAdd(V1, dV)), spiked |-> spiked]
run_step_StrictThreshold(v_prev, M, p) ==
    LET spiked == [k \in 1..Len(v_prev) |-> QLt(p.v_thresh, v_prev[k])]
        V1 == where(spiked, p.v_reset, v_prev)
        I_syn == dot(M, spiked)
    IN  [V |-> where(spiked, p.v_reset, VecAdd(V1, dV_of(V1, I_syn, p))),
         spiked |-> spiked]
\* run_step(v_prev, v_thresh, v_reset, W, tau_m, dt, membr_R); p holds the
\* scalars
run_step(v_prev, M, p) ==
    LET spiked == GreaterEqual(v_prev, p.v_thresh)
        V1 == where(spiked, p.v_reset, v_prev)
        I_syn == dot(M, spiked)
        dV == dV_of(V1, I_syn, p)
        V2 == VecAdd(V1, dV)
        V3 == where(spiked, p.v_reset, V2)
    IN  [V |-> V3, spiked |-> spiked]

(* ------------------- the inlined body of the loop ----------------------- *)
inlined_detect_Prepend(Vin, train, p) ==
    LET fired == GreaterEqual(Vin, p.v_thresh)
    IN  [V |-> where(fired, p.v_reset, Vin), fired |-> fired,
         spike_train |-> <<fired>> \o train]
\* the body up to spike_train.append(fired) (lines 599-603)
inlined_detect(Vin, train, p) ==
    LET fired == GreaterEqual(Vin, p.v_thresh)
    IN  [V |-> where(fired, p.v_reset, Vin), fired |-> fired,
         spike_train |-> Append(train, fired)]

inlined_update_FirstMask(d, M, p) ==
    LET I_syn == dot(M, d.spike_train[1])
        dV == dV_of(d.V, I_syn, p)
        V2 == VecAdd(d.V, dV)
    IN  where(d.fired, p.v_reset, V2)
\* the rest of the body (lines 606-611), from the record inlined_detect left
inlined_update(d, M, p) ==
    LET I_syn == dot(M, d.spike_train[Len(d.spike_train)])
        dV == dV_of(d.V, I_syn, p)
        V2 == VecAdd(d.V, dV)
    IN  where(d.fired, p.v_reset, V2)

(* ------------------------------- state ---------------------------------- *)
VARIABLES
    W, V0,              \* the caller's weight matrix and initial potentials (_V)
    tau_m, v_reset, v_thresh, membr_R, t_max, dt,   \* the caller's scalars
    pc,                 \* "idle" | "loop" | "error"
    variant,            \* the run_simulation of the notebook: "step" | "inlined"
    i,                  \* the index enumerate gives the next time point
    V,                  \* the local V of run_simulation
    spike_train,        \* the local spike_train of run_simulation
    Vs,                 \* history: V at entry and after each completed step
    calls               \* history: what each finished call returned and went through

vars == <<W, V0, tau_m, v_reset, v_thresh, membr_R, t_max, dt,
          pc, variant, i, V, spike_train, Vs, calls>>

inputs == <<W, V0, tau_m, v_reset, v_thresh, membr_R, t_max, dt>>

params == [tau_m |-> tau_m, v_reset |-> v_reset, v_thresh |-> v_thresh,
           membr_R |-> membr_R, dt |-> dt]

\* the V that a call starts from: the parameter V is bound to the caller's
\* array, whatever an earlier call left in its own local V
EntryVLeaked(callerV, leftV) == IF leftV = <<>> THEN callerV ELSE leftV
EntryV(callerV, leftV) == callerV

(* ------------------------------- inputs --------------------------------- *)
WVals == {Q(0), Q(5)}
TMaxVals == {Q(1), Frac(5, 2), Q(4)}
\* the scalars of a run; dt / tau_m is 1, 1/2 or 2, v_reset lies below
\* v_thresh or on it
Scalars ==
    { [tau_m |-> Q(1), dt |-> Q(1), membr_R |-> Q(1), v_reset |-> Q(0),  v_thresh |-> Q(1)],
      [tau_m |-> Q(1), dt |-> Q(1), membr_R |-> Q(2), v_reset |-> Q(-1), v_thresh |-> Q(1)],
      [tau_m |-> Q(2), dt |-> Q(1), membr_R |-> Q(2), v_reset |-> Q(-1), v_thresh |-> Q(1)],
      [tau_m |-> Q(1), dt |-> Q(2), membr_R |-> Q(1), v_reset |-> Q(0),  v_thresh |-> Q(1)],
      [tau_m |-> Q(1), dt |-> Q(1), membr_R |-> Q(1), v_reset |-> Q(1),  v_thresh |-> Q(1)] }
\* the potentials a neuron may start from: rest (_V = ones * _V_reset), or
\* above or below it
V0Vals(vr) == {vr, Frac(3, 2), Q(-3)}

\* an n x n matrix: d on the diagonal, u above and l below it
SquareW(n, d, u, l) ==
    [r \in 1..n |-> [c \in 1..n |-> IF r = c THEN d ELSE IF r < c THEN u ELSE l]]
\* a vector of n entries a, b, a, ...
AltVec(n, a, b) == [k \in 1..n |-> IF k % 2 = 1 THEN a ELSE b]

Start ==
    /\ pc = "idle"
    /\ variant \in {"step", "inlined"}
    /\ i = 0
    /\ V = <<>>
    /\ spike_train = <<>>
    /\ Vs = <<>>
    /\ calls = <<>>

\* square networks with a vector of matching length
InitSquare ==
    /\ \E p \in Scalars :
          /\ tau_m = p.tau_m
          /\ dt = p.dt
          /\ membr_R = p.membr_R
          /\ v_reset = p.v_reset
          /\ v_thresh = p.v_thresh
    /\ \E n \in 1..MaxN : \E d, u, l \in WVals : W = SquareW(n, d, u, l)
    /\ \E a, b \in V0Vals(v_reset) : V0 = AltVec(Rows(W), a, b)
    /\ t_max \in TMaxVals
    /\ Start

\* arrays of any shapes
InitShapes ==
    /\ \E r, c, n \in 1..MaxDim : \E w \in WVals :
          /\ W = [x \in 1..r |-> [y \in 1..c |-> w]]
          /\ v_reset = Q(0)
          /\ \E a \in {Q(0), Frac(3, 2)} : V0 = [k \in 1..n |-> a]
    /\ tau_m = Q(1)
    /\ dt = Q(1)
    /\ v_thresh = Q(1)
    /\ membr_R = Q(1)
    /\ t_max \in TMaxVals \cup {Q(0)}
    /\ Start

\* the single isolated neuron at rest, stepped by a tenth
InitIsolated ==
    /\ W = <<<<Q(0)>>>>
    /\ V0 = <<Q(0)>>
    /\ v_reset = Q(0)
    /\ v_thresh = Q(1)
    /\ membr_R = Q(1)
    /\ tau_m = Q(1)
    /\ dt = Frac(1, 10)
    /\ t_max = Q(1)
    /\ Start

Init == InitSquare \/ InitShapes \/ InitIsolated

(* ------------------------------- actions -------------------------------- *)
\* the timing loop calls run_simulation(W, _V, ...): spike_train = [] and the
\* for statement starts
Call ==
    /\ pc = "idle"
    /\ Len(calls) < MaxCalls
    /\ pc' = "loop"
    /\ i' = 0
    /\ V' = EntryV(V0, V)
    /\ spike_train' = <<>>
    /\ Vs' = <<EntryV(V0, V)>>
    /\ UNCHANGED <<inputs, variant, calls>>

\* if i == 0: continue
SkipFirst ==
    /\ pc = "loop"
    /\ i = 0
    /\ i < ArangeLen(t_max, dt)
    /\ i' = 1
    /\ UNCHANGED <<inputs, pc, variant, V, spike_train, Vs, calls>>

\* V, spiked = run_step(...); spike_train.append(spiked)
Step ==
    /\ pc = "loop"
    /\ variant = "step"
    /\ 0 < i
    /\ i < ArangeLen(t_max, dt)
    /\ ~ShapeError(W, V)
    /\ LET r == run_step(V, W, params)
       IN  /\ V' = r.V
           /\ spike_train' = Append(spike_train, r.spiked)
           /\ Vs' = Append(Vs, r.V)
    /\ i' = i + 1
    /\ UNCHANGED <<inputs, pc, variant, calls>>

\* run_step raises on the shapes: nothing is assigned and the call ends
StepRaises ==
    /\ pc = "loop"
    /\ variant = "step"
    /\ 0 < i
    /\ i < ArangeLen(t_max, dt)
    /\ ShapeError(W, V)
    /\ pc' = "error"
    /\ UNCHANGED <<inputs, variant, i, V, spike_train, Vs, calls>>

\* one pass of the inlined body
InlinedStep ==
    /\ pc = "loop"
    /\ variant = "inlined"
    /\ 0 < i
    /\ i < ArangeLen(t_max, dt)
    /\ ~ShapeError(W, V)
    /\ LET d == inlined_detect(V, spike_train, params)
           Vout == inlined_update(d, W, params)
       IN  /\ V' = Vout
           /\ spike_train' = d.spike_train
           /\ Vs' = Append(Vs, Vout)
    /\ i' = i + 1
    /\ UNCHANGED <<inputs, pc, variant, calls>>

\* the inlined body raises on the shapes, after it has reset V and appended
\* the mask to its local list
InlinedRaises ==
    /\ pc = "loop"
    /\ variant = "inlined"
    /\ 0 < i
    /\ i < ArangeLen(t_max, dt)
    /\ ShapeError(W, V)
    /\ LET d == inlined_detect(V, spike_train, params)
       IN  /\ V' = d.V
           /\ spike_train' = d.spike_train
    /\ pc' = "error"
    /\ UNCHANGED <<inputs, variant, i, Vs, calls>>

\* the time points are exhausted: return spike_train
Return ==
    /\ pc = "loop"
    /\ i >= ArangeLen(t_max, dt)
    /\ pc' = "idle"
    /\ calls' = Append(calls, [spike_train |-> spike_train, Vs |-> Vs])
    /\ UNCHANGED <<inputs, variant, i, V, spike_train, Vs>>

Next ==
    \/ Call
    \/ SkipFirst
    \/ Step
    \/ StepRaises
    \/ InlinedStep
    \/ InlinedRaises
    \/ Return

Spec == Init /\ [][Next]_vars

(* ------------------------- what the claims read ------------------------- *)
\* the mask the latest pass of the loop appended
LastMask == spike_train[Len(spike_train)]
\* the latest pass of the loop ran to its end: Vs holds V at entry and after
\* every pass, spike_train one mask for every pass
StepDone == Len(spike_train) > 0 /\ Len(Vs) = Len(spike_train) + 1
\* V at the entry of the latest pass
PrevV == Vs[Len(Vs) - 1]
AllFalse(mask) == \A k \in 1..Len(mask) : ~mask[k]
WShapeOK == Cols(W) = Len(V0) /\ Rows(W) = Len(V0)

(* C1: after every step, every neuron whose mask entry of that step is     *)
(* true holds exactly v_reset, whatever current the step injected into it. *)
C1_ResetInvariant ==
    StepDone => \A k \in 1..Len(V) : At(LastMask, k) => V[k] = v_reset

\* a step in which a spiking neuron was injected a nonzero current
C1_Witness ==
    /\ StepDone
    /\ WShapeOK
    /\ \E k \in 1..Len(V) :
          /\ LastMask[k]
          /\ dot(W, LastMask)[k] # Q(0)
          /\ V[k] = v_reset

(* C2: a returned spike train has ceil(t_max/dt) - 1 entries, and none     *)
(* when that is <= 0.  ceil(x) - 1 <= 0 exactly when x <= 1, and           *)
(* ceil(x) - 1 = n >= 1 exactly when n < x <= n + 1.                       *)
C2_StepCount ==
    \A c \in 1..Len(calls) :
        LET n == Len(calls[c].spike_train)
        IN  IF QLeq(t_max, dt) THEN n = 0
            ELSE /\ n >= 1
                 /\ QLt(QMul(Q(n), dt), t_max)
                 /\ QLeq(t_max, QMul(Q(n + 1), dt))

\* a returned train of two masks for t_max/dt = 5/2
C2_Witness ==
    /\ Len(calls) >= 1
    /\ t_max = Frac(5, 2)
    /\ dt = Q(1)
    /\ Len(calls[1].spike_train) = 2

WAllZero == \A r \in 1..Rows(W) : \A c \in 1..Cols(W) : W[r][c] = Q(0)
V0BelowThresh == \A k \in 1..Len(V0) : QLt(V0[k], v_thresh)
\* b lies on a's side of rest and no farther from it
Toward(a, b, rest) ==
    /\ QLeq(QAbs(QSub(b, rest)), QAbs(QSub(a, rest)))
    /\ QGeq(a, rest) => QGeq(b, rest)
    /\ QLeq(a, rest) => QLeq(b, rest)
Quiescent ==
    /\ \A j \in 1..Len(spike_train) : AllFalse(spike_train[j])
    /\ \A j \in 1..(Len(Vs) - 1) : \A k \in 1..Len(Vs[j + 1]) :
          Toward(At(Vs[j], k), Vs[j + 1][k], v_reset)
(* C3, as stated: with W all zero and every V0[i] < v_thresh (tau_m > 0,   *)
(* dt > 0), no mask has a true entry and from one step to the next every   *)
(* potential stays on its side of v_reset and no farther from it.          *)
C3_Original ==
    (WAllZero /\ V0BelowThresh /\ QLt(Q(0), tau_m) /\ QLt(Q(0), dt)) => Quiescent

(* C3, amended: the same under 0 < dt <= tau_m and v_reset < v_thresh      *)
(* (in exact arithmetic).                                                  *)
C3_Quiescence ==
    (/\ WAllZero
     /\ V0BelowThresh
     /\ QLt(Q(0), dt)
     /\ QLeq(dt, tau_m)
     /\ QLt(v_reset, v_thresh)) => Quiescent

\* two steps of decay of a neuron that started away from v_reset
C3_Witness ==
    /\ WAllZero
    /\ V0BelowThresh
    /\ QLt(dt, tau_m)
    /\ QLt(v_reset, v_thresh)
    /\ Len(Vs) >= 3
    /\ \E k \in 1..Len(V) : Vs[1][k] # v_reset /\ Vs[3][k] # Vs[2][k]

(* C4, as stated: after every step, the mask entry of a neuron is true     *)
(* if and only if its potential equals v_reset.                            *)
C4_Original ==
    StepDone => \A k \in 1..Len(V) : At(LastMask, k) <=> V[k] = v_reset

\* the forward-Euler value of neuron k for the latest step, before the
\* post-update reset
EulerValue(k) ==
    LET vin == IF At(LastMask, k) THEN v_reset ELSE At(PrevV, k)
        I == dot(W, LastMask)
    IN  QAdd(vin, QMul(QDiv(dt, tau_m),
                       QAdd(QAdd(QNeg(vin), v_reset), QMul(membr_R, At(I, k)))))

(* C4, amended: after every step a neuron whose mask entry is true holds   *)
(* exactly v_reset, and a neuron whose mask entry is false holds v_reset   *)
(* only when the forward-Euler value of the step is v_reset itself.        *)
C4_SpikedIffReset ==
    StepDone => \A k \in 1..Len(V) :
        V[k] = v_reset <=> (At(LastMask, k) \/ EulerValue(k) = v_reset)

\* a step that left a spiking neuron and a silent neuron at v_reset, and a
\* silent one away from it
C4_Witness ==
    /\ StepDone
    /\ Len(V) >= 2
    /\ \E k \in 1..Len(V) :
          At(LastMask, k) /\ V[k] = v_reset /\ dot(W, LastMask)[k] # Q(0)
    /\ \E k \in 1..Len(V) : ~At(LastMask, k) /\ V[k] = v_reset

Mismatch == Rows(W) # Cols(W) \/ Len(V0) # Rows(W)

(* C5, as stated: whenever W is not square or V0 has not as many entries   *)
(* as W has rows, the call ends with an error and runs no step: it never   *)
(* returns, no potential is updated and no mask is appended, for every     *)
(* t_max and dt.                                                           *)
C5_Original ==
    Mismatch => /\ calls = <<>>
                /\ Len(Vs) <= 1
                /\ spike_train = <<>>

\* the shapes the first pass of the loop cannot compute with
FirstPassFails ==
    \/ Cols(W) # Len(V0)
    \/ Rows(W) # Len(V0) /\ Rows(W) # 1 /\ Len(V0) # 1
Raises == StepRaises \/ InlinedRaises
Proceeds == Step \/ InlinedStep \/ Return

(* C5, amended: a run of at least one step (t_max > dt) raises a dimension *)
(* error in its first step exactly when W has not as many columns as V0    *)
(* has entries, or W's row count and V0's length differ and neither is 1;  *)
(* the error comes before any potential update, no spike train is          *)
(* returned, and the run_step variant has appended no mask.  A run of no   *)
(* step raises nothing.                                                    *)
C5_FailFast ==
    /\ (pc = "loop" /\ i = 1 /\ QLt(dt, t_max))
          => /\ FirstPassFails <=> ENABLED Raises
             /\ FirstPassFails => ~ENABLED Proceeds
    /\ (FirstPassFails /\ QLt(dt, t_max))
          => /\ calls = <<>>
             /\ Len(Vs) <= 1
             /\ variant = "step" => spike_train = <<>>
    /\ (pc = "error" /\ Len(Vs) <= 1) => FirstPassFails

\* the run_step variant stopped by a W of 2 rows and 3 columns given 3
\* potentials: the product is defined, the sum is not
C5_Witness ==
    /\ pc = "error"
    /\ variant = "step"
    /\ Rows(W) = 2
    /\ Cols(W) = 3
    /\ Len(V0) = 3
    /\ Len(Vs) = 1
    /\ spike_train = <<>>

(* C6: whenever t_max <= dt (dt > 0) the call raises nothing, runs no      *)
(* step and returns an empty spike train, whatever W and V0 are.           *)
C6_ZeroLengthRun ==
    (QLt(Q(0), dt) /\ QLeq(t_max, dt))
        => /\ pc # "error"
           /\ Len(Vs) <= 1
           /\ spike_train = <<>>
           /\ \A c \in 1..Len(calls) : calls[c].spike_train = <<>>
           /\ pc = "loop" => (ENABLED SkipFirst \/ ENABLED Return) /\ ~ENABLED Raises

\* an empty train returned for t_max = dt and shapes that do not agree
C6_Witness ==
    /\ t_max = dt
    /\ Mismatch
    /\ FirstPassFails
    /\ Len(calls) >= 1
    /\ calls[1].spike_train = <<>>

FeedbackScenario ==
    /\ W = <<<<Q(0), Q(5)>>, <<Q(5), Q(0)>>>>
    /\ V0 = <<Frac(3, 2), Q(0)>>
    /\ v_reset = Q(0)
    /\ v_thresh = Q(1)
    /\ membr_R = Q(1)
    /\ tau_m = Q(1)
    /\ dt = Q(1)
(* C7: with N = 2, W = [[0,5],[5,0]], v_reset = 0, v_thresh = 1,           *)
(* membr_R = 1, tau_m = 1, dt = 1 and V0 = [1.5, 0], step 1 records        *)
(* [true, false] and leaves V = [0, 5]; step 2 records [false, true] and   *)
(* leaves V[1] = v_reset = 0 and V[0] = 5.                                 *)
C7_TwoNeuronFeedback ==
    FeedbackScenario =>
        /\ Len(Vs) >= 2 => /\ spike_train[1] = <<TRUE, FALSE>>
                           /\ Vs[2] = <<Q(0), Q(5)>>
        /\ Len(Vs) >= 3 => /\ spike_train[2] = <<FALSE, TRUE>>
                           /\ Vs[3][2] = v_reset
                           /\ Vs[3][1] = Q(5)

\* the scenario after its second step
C7_Witness ==
    /\ FeedbackScenario
    /\ Len(Vs) = 3
    /\ Len(spike_train) = 2
    /\ V = <<Q(5), Q(0)>>

AtRest == \A k \in 1..Len(V0) : V0[k] = v_reset
IsolatedScenario ==
    /\ W = <<<<Q(0)>>>>
    /\ V0 = <<Q(0)>>
    /\ v_reset = Q(0)
    /\ v_thresh = Q(1)
    /\ membr_R = Q(1)
    /\ tau_m = Q(1)
    /\ dt = Frac(1, 10)
    /\ t_max = Q(1)
(* C8: if every V0[i] equals v_reset and v_reset < v_thresh, every mask is *)
(* all false and every potential stays exactly v_reset; the single neuron  *)
(* with W = [[0]], v_reset = 0, v_thresh = 1, membr_R = 1, tau_m = 1,      *)
(* dt = 0.1, t_max = 1, V0 = [0] returns 9 masks.                          *)
C8_RestFixedPoint ==
    /\ (AtRest /\ QLt(v_reset, v_thresh))
          => /\ \A j \in 1..Len(spike_train) : AllFalse(spike_train[j])
             /\ \A j \in 1..Len(Vs) : \A k \in 1..Len(Vs[j]) : Vs[j][k] = v_reset
    /\ IsolatedScenario
          => \A c \in 1..Len(calls) : Len(calls[c].spike_train) = 9

\* the single neuron's run returned its 9 masks
C8_Witness ==
    /\ IsolatedScenario
    /\ Len(calls) >= 1
    /\ Len(calls[1].spike_train) = 9
    /\ Len(calls[1].Vs) = 10

\* the calls made so far, the running one last
Runs ==
    IF pc = "idle" THEN calls
    ELSE Append(calls, [spike_train |-> spike_train, Vs |-> Vs])
Min(a, b) == IF a < b THEN a ELSE b

(* C9: two calls with the same W, V0 and scalars, compared step by step,   *)
(* recorded the same mask at every step and held the same potentials after *)
(* every step; so they return the same train and end on the same           *)
(* potentials.                                                             *)
C9_Determinism ==
    \A a, b \in 1..Len(Runs) :
        /\ \A j \in 1..Min(Len(Runs[a].Vs), Len(Runs[b].Vs)) :
              Runs[a].Vs[j] = Runs[b].Vs[j]
        /\ \A j \in 1..Min(Len(Runs[a].spike_train), Len(Runs[b].spike_train)) :
              Runs[a].spike_train[j] = Runs[b].spike_train[j]

\* two finished calls of at least two steps, with a spike, that ended away
\* from V0
C9_Witness ==
    /\ Len(calls) >= 2
    /\ Len(calls[2].spike_train) >= 2
    /\ \E j \in 1..Len(calls[2].spike_train) : ~AllFalse(calls[2].spike_train[j])
    /\ calls[2].Vs[Len(calls[2].Vs)] # V0
    /\ calls[1].spike_train = calls[2].spike_train

\* what every step of the timing loop and of a call preserves
C10_Frame ==
    /\ inputs' = inputs
    /\ (pc = "idle" /\ pc' = "loop") => spike_train' = <<>>
    /\ Len(calls') >= Len(calls)
    /\ \A c \in 1..Len(calls) : calls'[c] = calls[c]
    /\ \A c \in 1..Len(calls') : calls'[c].spike_train = calls'[1].spike_train
(* C10: no step of a call changes the caller's W, V0 or scalars, every     *)
(* call starts from an empty spike train, a returned train is never        *)
(* changed afterwards, and every call of the sequence returns the train    *)
(* the first call returned.                                                *)
C10_NoLeak == [][C10_Frame]_vars

\* the second call returned a train with a spike, after the first call left
\* its V away from V0
C10_Witness ==
    /\ Len(calls) = 2
    /\ pc = "idle"
    /\ V # V0
    /\ \E j \in 1..Len(calls[2].spike_train) : ~AllFalse(calls[2].spike_train[j])

(* ------------- the two run_simulation on the same inputs ---------------- *)
Other(vr) == IF vr = "step" THEN "inlined" ELSE "step"

\* a call as Call makes it, of the run_simulation of one notebook first and
\* from then on of the one that did not make the previous call
CallAlternating ==
    /\ pc = "idle"
    /\ Len(calls) < MaxCalls
    /\ pc' = "loop"
    /\ variant' = IF calls = <<>> THEN variant ELSE Other(variant)
    /\ i' = 0
    /\ V' = EntryV(V0, V)
    /\ spike_train' = <<>>
    /\ Vs' = <<EntryV(V0, V)>>
    /\ UNCHANGED <<inputs, calls>>

NextVariants ==
    \/ CallAlternating
    \/ SkipFirst
    \/ Step
    \/ StepRaises
    \/ InlinedStep
    \/ InlinedRaises
    \/ Return

SpecVariants == Init /\ [][NextVariants]_vars

\* the calls made so far, the running one last
RunsSoFar ==
    calls \o (IF pc = "idle" THEN <<>>
              ELSE <<[spike_train |-> spike_train, Vs |-> Vs]>>)
\* x is the start of y, or y the start of x
Agree(x, y) ==
    \A j \in 1..Len(x) : j <= Len(y) => x[j] = y[j]

(* C11: the run_simulation that calls run_step and the one that inlines    *)
(* the body, given the same W, V0 and scalars and compared step by step,   *)
(* record the same mask at every step, hold the same potentials after      *)
(* every step and return trains of the same length.                        *)
C11_VariantsAgree ==
    /\ \A a \in 1..(Len(RunsSoFar) - 1) :
          /\ Agree(RunsSoFar[a].spike_train, RunsSoFar[a + 1].spike_train)
          /\ Agree(RunsSoFar[a].Vs, RunsSoFar[a + 1].Vs)
    /\ \A a \in 1..(Len(calls) - 1) :
          Len(calls[a].spike_train) = Len(calls[a + 1].spike_train)

\* both have returned after three steps in which a neuron spiked and, from
\* the second step on, a current was injected
C11_Witness ==
    /\ Len(calls) = 2
    /\ WShapeOK
    /\ Len(calls[2].spike_train) = 3
    /\ \E j \in 2..3 : \E k \in 1..Len(V0) :
          dot(W, calls[2].spike_train[j])[k] # Q(0)
    /\ calls[1].spike_train # <<>>
    /\ calls[2].Vs[4] # V0

\* sum over the neurons j <= n, but not j = skip, of W[k][j] for the j
\* whose entry of mask is true
RECURSIVE SpikeSum(_, _, _, _)
SpikeSum(k, mask, n, skip) ==
    IF n = 0 THEN Q(0)
    ELSE QAdd(SpikeSum(k, mask, n - 1, skip),
              IF mask[n] /\ n # skip THEN W[k][n] ELSE Q(0))
\* vin + (dt / tau_m) (-vin + v_reset + membr_R I)
Euler(vin, I) ==
    QAdd(vin, QMul(QDiv(dt, tau_m),
                   QAdd(QAdd(QNeg(vin), v_reset), QMul(membr_R, I))))

(* C12: a step updates all neurons from the potentials V_in at its entry:  *)
(* spiked[i] = (V_in[i] >= v_thresh); I_syn[i] is the sum over j of        *)
(* W[i][j] spiked[j] for the mask of this same step; the potential after   *)
(* the step is v_reset if spiked[i], and otherwise                         *)
(* V_in[i] + (dt/tau_m)(-V_in[i] + v_reset + membr_R I_syn[i]).            *)
C12_SynchronousStep ==
    (StepDone /\ WShapeOK) => \A k \in 1..Len(V0) :
        /\ LastMask[k] <=> QGeq(PrevV[k], v_thresh)
        /\ V[k] = IF LastMask[k] THEN v_reset
                  ELSE Euler(PrevV[k], SpikeSum(k, LastMask, Len(V0), 0))

\* a second step whose mask differs from the first step's and in which a
\* silent neuron was injected a current by a neuron spiking in it
C12_Witness ==
    /\ StepDone
    /\ WShapeOK
    /\ Len(spike_train) = 2
    /\ spike_train[1] # spike_train[2]
    /\ \E k \in 1..Len(V0) :
          /\ ~LastMask[k]
          /\ SpikeSum(k, LastMask, Len(V0), 0) # Q(0)
          /\ SpikeSum(k, spike_train[1], Len(V0), 0) = Q(0)
          /\ V[k] # PrevV[k]

\* the steps the running call has executed: the loop has passed i time
\* points, the first of them skipped
StepsExecuted == IF i = 0 THEN 0 ELSE i - 1
\* v >= v_thresh, entry by entry
MaskOf(v) == [k \in 1..Len(v) |-> QGeq(v[k], v_thresh)]
\* what every transition keeps of the spike train of a call on an N x N
\* network
C13_Frame ==
    WShapeOK =>
        /\ Len(spike_train) = StepsExecuted
        /\ Len(spike_train') = StepsExecuted'
        /\ (pc = "loop" /\ spike_train' # spike_train)
              => /\ spike_train' = Append(spike_train, MaskOf(V))
                 /\ Len(MaskOf(V)) = Len(V0)
                 /\ V = Vs[Len(Vs)]
                 /\ Vs' = Append(Vs, V')
                 /\ i' = i + 1
        /\ (pc = "loop" /\ spike_train' = spike_train) => V' = V
        /\ Len(spike_train') >= 1 => spike_train'[1] = MaskOf(V0)
        /\ pc = "idle" => spike_train' = <<>>

(* C13: during a run the spike train has one entry for every step          *)
(* executed so far; a step appends exactly one mask of length N, the mask  *)
(* detected on the potentials the previous step left (V0 for the first),   *)
(* and changes or removes no earlier entry.                                *)
C13_AppendOnly == [][C13_Frame]_vars

\* three steps of the inlined body with three different masks
C13_Witness ==
    /\ variant = "inlined"
    /\ WShapeOK
    /\ Len(spike_train) = 3
    /\ i = 4
    /\ spike_train[1] # spike_train[2]
    /\ spike_train[2] # spike_train[3]
    /\ spike_train[1] # spike_train[3]

(* ------------- the same network with another diagonal ------------------- *)
\* M with d in the entries of its diagonal
WithDiag(M, d) ==
    [r \in 1..Rows(M) |-> [c \in 1..Cols(M) |-> IF r = c THEN d ELSE M[r][c]]]

\* a call as Call makes it; from the second call on the caller passes W
\* with another weight on its diagonal
CallOtherDiagonal ==
    /\ pc = "idle"
    /\ Len(calls) < MaxCalls
    /\ \E d \in WVals :
          /\ calls = <<>> => d = W[1][1]
          /\ calls # <<>> => d # W[1][1]
          /\ W' = WithDiag(W, d)
    /\ pc' = "loop"
    /\ i' = 0
    /\ V' = EntryV(V0, V)
    /\ spike_train' = <<>>
    /\ Vs' = <<EntryV(V0, V)>>
    /\ UNCHANGED <<V0, tau_m, v_reset, v_thresh, membr_R, t_max, dt, variant, calls>>

NextDiagonal ==
    \/ CallOtherDiagonal
    \/ SkipFirst
    \/ Step
    \/ StepRaises
    \/ InlinedStep
    \/ InlinedRaises
    \/ Return

SpecDiagonal == Init /\ [][NextDiagonal]_vars

(* C14: runs on N x N weight matrices that differ only on the diagonal,    *)
(* with the same V0 and scalars, record the same mask at every step and    *)
(* hold the same potentials after every step.                              *)
C14_SelfWeightsIgnored ==
    WShapeOK => \A a, b \in 1..Len(RunsSoFar) :
        /\ Agree(RunsSoFar[a].Vs, RunsSoFar[b].Vs)
        /\ Agree(RunsSoFar[a].spike_train, RunsSoFar[b].spike_train)

\* two finished runs of three steps on two neurons, in which a neuron
\* spiked, so that its own weight entered I_syn, with self-weights 0 in one
\* run and 5 in the other
C14_Witness ==
    /\ Len(calls) = 2
    /\ WShapeOK
    /\ Len(V0) = 2
    /\ Len(calls[1].spike_train) = 3
    /\ \E j \in 1..3 : \E k \in 1..2 : calls[1].spike_train[j][k]
    /\ calls[2].Vs[4] # V0
    /\ \A k \in 1..2 : W[k][k] = Q(0)
    /\ \E k \in 1..2 : \E c \in 1..2 : W[k][c] # Q(0)

(* C15: when v_reset < v_thresh, on an N x N network a neuron that spiked  *)
(* in one step does not spike in the next step, whatever current the other *)
(* neurons injected into it.                                               *)
C15_Refractory ==
    (WShapeOK /\ QLt(v_reset, v_thresh)) =>
        \A j \in 1..(Len(spike_train) - 1) : \A k \in 1..Len(V0) :
            spike_train[j][k] => ~spike_train[j + 1][k]

\* a step in which two neurons spiked together and each injected nonzero
\* current into the other, followed by a recorded step
C15_Witness ==
    /\ WShapeOK
    /\ QLt(v_reset, v_thresh)
    /\ Len(V0) = 2
    /\ Len(spike_train) >= 2
    /\ \E j \in 1..(Len(spike_train) - 1) :
          /\ spike_train[j][1] /\ spike_train[j][2]
          /\ ~spike_train[j + 1][1] /\ ~spike_train[j + 1][2]
    /\ W[1][2] # Q(0) /\ W[2][1] # Q(0)
    /\ W[1][1] # Q(0)

====
